---- MODULE Spec2Model ----
(***************************************************************************)
(* Model of the CalDAV event engine of eink-calendar                       *)
(* (src/src/services/caldav.ts, class CalDAVService, the version that      *)
(* expands recurrences with the rrule library): fetchEvents on the shared  *)
(* calDAVService instance, parseCalendarObjects, parseICalData,            *)
(* expandRecurringEvent, deduplicateEvents, parseDateTime and sortEvents.  *)
(*                                                                         *)
(* Time.  An instant is an integer number of slots since the epoch (UTC);  *)
(* a day has DayLen slots.  The host's local time is UTC + tz slots.       *)
(* NoDate stands for `undefined`, InvalidDate for a Date whose time value  *)
(* is NaN ("Invalid Date").                                                *)
(***************************************************************************)
EXTENDS Integers, Sequences, FiniteSets, TLC

VARIABLES
  tz,                  \* host timezone offset, in slots (local = UTC + tz)
  serverUrl,           \* VITE_CALDAV_SERVER_URL or '' (constructor)
  username,            \* VITE_CALDAV_USERNAME or ''
  password,            \* VITE_CALDAV_PASSWORD or ''
  calendar,            \* the calendar objects the proxy answers with
  requestedStartDate,  \* CalDAVService.requestedStartDate (shared instance)
  requestedEndDate,    \* CalDAVService.requestedEndDate   (shared instance)
  calls,               \* the fetchEvents calls, one per caller
  expansion,           \* an activation of the hand-written expandRecurringEvent
  ui                   \* the state of CalendarCustomizerApp that CalDAV touches

vars == <<tz, serverUrl, username, password, calendar, requestedStartDate,
          requestedEndDate, calls, expansion, ui>>

----------------------------------------------------------------------------
(* Bounds of the model *)

DayLen == 2
MaxDay == 2
MaxBlocks == 3

TimeZones == {-1, 0, 1}
Days == 0..MaxDay
Hours == 0..(DayLen - 1)
Callers == {1, 2}
RandomIds == {"r1", "r2"}

NoDate == -1000
InvalidDate == -999
NoSeq == -1

----------------------------------------------------------------------------
(* Date helpers: what the JavaScript Date methods used by the code do *)

IsInstant(t) == t # NoDate /\ t # InvalidDate

\* new Date(year, month, day): local midnight of calendar day d
LocalMidnight(d) == d * DayLen - tz

\* the calendar day Date.toDateString() prints (local time)
LocalDay(t) == (t + tz) \div DayLen

\* the calendar day Date.toISOString().split('T')[0] yields (UTC)
UTCDay(t) == t \div DayLen

\* a.getTime() !== b.getTime(): NaN differs from everything, itself included
TimeDiffers(a, b) == a = InvalidDate \/ b = InvalidDate \/ a # b

----------------------------------------------------------------------------
(* iCalendar text.  A line `NAME;PARAMS:VALUE` is a record; a value is a   *)
(* record whose kind tells which text it is:                               *)
(*   "date"  YYYYMMDD            (day d)                                   *)
(*   "local" YYYYMMDDTHHMMSS     (day d, hour h, floating/local)           *)
(*   "utc"   YYYYMMDDTHHMMSSZ    (day d, hour h, UTC)                      *)
(*   "int"   an integer          (d)                                       *)
(*   "text"  any other text      (s)                                       *)

Value(kind, d, h, s) == [kind |-> kind, d |-> d, h |-> h, s |-> s]
DateV(d) == Value("date", d, 0, "")
LocalV(d, h) == Value("local", d, h, "")
UtcV(d, h) == Value("utc", d, h, "")
IntV(n) == Value("int", n, 0, "")
TextV(s) == Value("text", 0, 0, s)

Line(name, params, v) == [name |-> name, params |-> params, v |-> v]
BeginLine == Line("BEGIN:VEVENT", "", TextV(""))
EndLine == Line("END:VEVENT", "", TextV(""))

\* key.includes('VALUE=DATE'): true of VALUE=DATE and of VALUE=DATE-TIME
KeyIncludesValueDate(params) == params \in {"VALUE=DATE", "VALUE=DATE-TIME"}

\* dateValue.includes('T')
IncludesT(v) == v.kind \in {"local", "utc"}

\* parseDateTime(dateTimeString, isDateOnly): parseInt of the substrings,
\* then new Date(...) or Date.UTC(...); any NaN component gives Invalid Date
parseDateTime(v, isDateOnly) ==
  IF v.kind \notin {"date", "local", "utc"} THEN InvalidDate
  ELSE IF isDateOnly THEN LocalMidnight(v.d)
  ELSE IF v.kind = "date" THEN InvalidDate
  ELSE IF v.kind = "utc" THEN v.d * DayLen + v.h
  ELSE v.d * DayLen + v.h - tz

----------------------------------------------------------------------------
(* CalendarEvent and the parser's currentEvent *)

Event(id, title, start, end, allDay, sequence, recurrenceId) ==
  [id |-> id, title |-> title, start |-> start, end |-> end,
   allDay |-> allDay, sequence |-> sequence, recurrenceId |-> recurrenceId]

\* currentEvent = { exdates: [] }; absent fields are "", NoDate, NoSeq, FALSE
EmptyEvent ==
  [title |-> "", start |-> NoDate, end |-> NoDate, allDay |-> FALSE,
   id |-> "", rrule |-> "", recurrenceId |-> NoDate, status |-> "",
   sequence |-> NoSeq, exdates |-> <<>>]

\* the currentEvent object itself, handed on as a CalendarEvent
RawEvent(cur) ==
  Event(cur.id, cur.title, cur.start, cur.end, cur.allDay, cur.sequence,
        cur.recurrenceId)

----------------------------------------------------------------------------
(* The rrule library: rrulestr(rule, {dtstart}) and RRuleSet.between *)

\* rrulestr throws on a rule it cannot parse
rruleParses(rule) ==
  rule \in {"FREQ=DAILY", "FREQ=DAILY;INTERVAL=2", "FREQ=WEEKLY"}

\* the distance between two consecutive occurrences of the rule
rruleStep(rule) ==
  CASE rule = "FREQ=DAILY" -> DayLen
    [] rule = "FREQ=DAILY;INTERVAL=2" -> 2 * DayLen
    [] rule = "FREQ=WEEKLY" -> 7 * DayLen

RECURSIVE Ascending(_)
Ascending(S) ==
  IF S = {} THEN <<>>
  ELSE LET m == CHOOSE x \in S : \A y \in S : x <= y
       IN <<m>> \o Ascending(S \ {m})

SeqRange(s) == {s[i] : i \in 1..Len(s)}

\* rruleSet.between(after, before, true): the occurrences dtstart + k*step
\* inside [after, before], EXDATE instants removed, ascending
between(rule, dtstart, exdates, after, before) ==
  IF ~IsInstant(dtstart) \/ ~IsInstant(after) \/ ~IsInstant(before)
  THEN <<>>
  ELSE LET step == rruleStep(rule)
           all == {dtstart + k * step : k \in 0..((before - dtstart) \div step)}
       IN Ascending({t \in all : t >= after /\ t <= before
                                 /\ t \notin SeqRange(exdates)})

\* one element of occurrences.map(...)
Occurrence(event, occurrence) ==
  LET occurrenceDate == IF event.allDay
                        THEN LocalMidnight(UTCDay(occurrence))
                        ELSE occurrence
      duration == IF IsInstant(event.end) /\ IsInstant(event.start)
                  THEN event.end - event.start ELSE 0
      uid == IF event.id = "" THEN "undefined" ELSE event.id
  IN Event(uid \o "_" \o ToString(occurrence), event.title, occurrenceDate,
           IF duration > 0 THEN occurrenceDate + duration ELSE occurrenceDate,
           event.allDay, 0, NoDate)

\* expandRecurringEvent(event), reading this.requestedStartDate/EndDate
expandRecurringEvent(event, reqStart, reqEnd) ==
  IF reqStart = NoDate \/ reqEnd = NoDate THEN <<RawEvent(event)>>
  ELSE IF ~rruleParses(event.rrule) THEN <<RawEvent(event)>>
  ELSE LET occurrences == between(event.rrule, event.start, event.exdates,
                                  reqStart, reqEnd)
           expanded == [i \in 1..Len(occurrences) |->
                          Occurrence(event, occurrences[i])]
       IN IF Len(expanded) > 0 THEN expanded ELSE <<RawEvent(event)>>

----------------------------------------------------------------------------
(* parseICalData: one pass over the lines of a calendar object.  The pass  *)
(* carries events, currentEvent (cur), inEvent and the number of           *)
(* Math.random() tokens drawn so far (used); rnd is the sequence of tokens *)
(* Math.random().toString(36) returns, in the order they are drawn.        *)

ParseState(events, cur, inEvent, used) ==
  [events |-> events, cur |-> cur, inEvent |-> inEvent, used |-> used]

\* a push that never reads currentEvent.id: id: Math.random().toString(36)
PushRecordAlwaysRandom(st, rnd, recurrenceId) ==
  LET cur == st.cur
  IN ParseState(Append(st.events,
                       Event(rnd[st.used + 1], cur.title, cur.start, cur.end,
                             cur.allDay, cur.sequence, recurrenceId)),
                cur, FALSE, st.used + 1)

\* the push of one record: id: currentEvent.id || Math.random().toString(36)
PushRecord(st, rnd, recurrenceId) ==
  LET cur == st.cur
      fresh == cur.id = ""
      id == IF fresh THEN rnd[st.used + 1] ELSE cur.id
  IN ParseState(Append(st.events,
                       Event(id, cur.title, cur.start, cur.end, cur.allDay,
                             cur.sequence, recurrenceId)),
                cur, FALSE, IF fresh THEN st.used + 1 ELSE st.used)

EndEventKeepCancelled(st, reqStart, reqEnd, rnd) ==
  LET cur == st.cur
  IN IF cur.title # "" /\ cur.start # NoDate
     THEN IF cur.recurrenceId # NoDate
          THEN PushRecord(st, rnd, cur.recurrenceId)
          ELSE IF cur.rrule # ""
          THEN ParseState(st.events \o expandRecurringEvent(cur, reqStart, reqEnd),
                          cur, FALSE, st.used)
          ELSE PushRecord(st, rnd, NoDate)
     ELSE ParseState(st.events, cur, FALSE, st.used)

EndEventNoGuard(st, reqStart, reqEnd, rnd) ==
  LET cur == st.cur
  IN IF cur.status = "CANCELLED"
     THEN ParseState(st.events, cur, FALSE, st.used)
     ELSE IF cur.recurrenceId # NoDate
          THEN PushRecord(st, rnd, cur.recurrenceId)
          ELSE IF cur.rrule # ""
          THEN ParseState(st.events \o expandRecurringEvent(cur, reqStart, reqEnd),
                          cur, FALSE, st.used)
          ELSE PushRecord(st, rnd, NoDate)

\* an END:VEVENT branch that looks at the RRULE before the RECURRENCE-ID
EndEventExpandFirst(st, reqStart, reqEnd, rnd) ==
  LET cur == st.cur
  IN IF cur.status = "CANCELLED"
     THEN ParseState(st.events, cur, FALSE, st.used)
     ELSE IF cur.title # "" /\ cur.start # NoDate
          THEN IF cur.rrule # ""
               THEN ParseState(st.events
                                 \o expandRecurringEvent(cur, reqStart, reqEnd),
                               cur, FALSE, st.used)
               ELSE IF cur.recurrenceId # NoDate
               THEN PushRecord(st, rnd, cur.recurrenceId)
               ELSE PushRecord(st, rnd, NoDate)
          ELSE ParseState(st.events, cur, FALSE, st.used)

\* the `END:VEVENT` branch (with inEvent true)
EndEvent(st, reqStart, reqEnd, rnd) ==
  LET cur == st.cur
  IN IF cur.status = "CANCELLED"
     THEN ParseState(st.events, cur, FALSE, st.used)
     ELSE IF cur.title # "" /\ cur.start # NoDate
          THEN IF cur.recurrenceId # NoDate
               THEN PushRecord(st, rnd, cur.recurrenceId)
               ELSE IF cur.rrule # ""
               THEN ParseState(st.events
                                 \o expandRecurringEvent(cur, reqStart, reqEnd),
                               cur, FALSE, st.used)
               ELSE PushRecord(st, rnd, NoDate)
          ELSE ParseState(st.events, cur, FALSE, st.used)

\* the branch for a property line inside a block
PropertyLine(cur, line) ==
  LET key == line.name
      v == line.v
  IN CASE key = "SUMMARY" /\ line.params = "" ->
            [cur EXCEPT !.title = v.s]
       [] key = "DTSTART" ->
            [cur EXCEPT !.start = parseDateTime(v, KeyIncludesValueDate(line.params)),
                        !.allDay = IF KeyIncludesValueDate(line.params)
                                   THEN TRUE ELSE @]
       [] key = "DTEND" ->
            [cur EXCEPT !.end = parseDateTime(v, KeyIncludesValueDate(line.params))]
       [] key = "UID" /\ line.params = "" ->
            [cur EXCEPT !.id = v.s]
       [] key = "RRULE" /\ line.params = "" ->
            [cur EXCEPT !.rrule = v.s]
       [] key = "RECURRENCE-ID" ->
            [cur EXCEPT !.recurrenceId = parseDateTime(v, ~IncludesT(v))]
       [] key = "STATUS" /\ line.params = "" ->
            [cur EXCEPT !.status = v.s]
       [] key = "SEQUENCE" /\ line.params = "" ->
            [cur EXCEPT !.sequence = IF v.kind = "int" THEN v.d ELSE 0]
       [] key = "EXDATE" ->
            [cur EXCEPT !.exdates = Append(@, parseDateTime(v, ~IncludesT(v)))]
       [] OTHER -> cur

\* a loop body whose BEGIN:VEVENT branch keeps the previous currentEvent
ParseLineKeepsCurrent(st, line, reqStart, reqEnd, rnd) ==
  IF line = BeginLine
  THEN ParseState(st.events, st.cur, TRUE, st.used)
  ELSE IF line = EndLine /\ st.inEvent
  THEN EndEvent(st, reqStart, reqEnd, rnd)
  ELSE IF st.inEvent
  THEN ParseState(st.events, PropertyLine(st.cur, line), TRUE, st.used)
  ELSE st

\* the body of `for (let line of lines)`
ParseLine(st, line, reqStart, reqEnd, rnd) ==
  IF line = BeginLine
  THEN ParseState(st.events, EmptyEvent, TRUE, st.used)
  ELSE IF line = EndLine /\ st.inEvent
  THEN EndEvent(st, reqStart, reqEnd, rnd)
  ELSE IF st.inEvent
  THEN ParseState(st.events, PropertyLine(st.cur, line), TRUE, st.used)
  ELSE st

RECURSIVE ParseLines(_, _, _, _, _, _)
ParseLines(st, lines, i, reqStart, reqEnd, rnd) ==
  IF i > Len(lines) THEN st
  ELSE ParseLines(ParseLine(st, lines[i], reqStart, reqEnd, rnd),
                  lines, i + 1, reqStart, reqEnd, rnd)

\* parseICalData(icalData): the events of one object; `used` counts the
\* random tokens drawn up to and including this object
parseICalData(lines, reqStart, reqEnd, rnd, used) ==
  LET st == ParseLines(ParseState(<<>>, EmptyEvent, FALSE, used),
                       lines, 1, reqStart, reqEnd, rnd)
  IN [events |-> st.events, used |-> st.used]

----------------------------------------------------------------------------
(* deduplicateEvents.  A key `${title}__${dateKey}` is the tuple           *)
(* <<title, format, day>>: toDateString() and toISOString().split('T')[0]  *)
(* print the day in different formats, so keys of the two formats never    *)
(* coincide; toISOString() throws RangeError on an Invalid Date, and       *)
(* toDateString() prints "Invalid Date".                                   *)

\* the date a key is built from cannot be printed: toISOString() throws
KeyThrows(allDay, date) == ~allDay /\ date = InvalidDate

\* allDay ? date.toDateString() : date.toISOString().split('T')[0]
dateKey(title, allDay, date) ==
  IF allDay
  THEN <<title, "toDateString",
         IF date = InvalidDate THEN InvalidDate ELSE LocalDay(date)>>
  ELSE <<title, "toISOString", UTCDay(date)>>

\* `${event.title}__${event.start.toISOString()}`
timeKey(event) == <<event.title, "time", event.start>>

\* the first forEach: the keys of all records that carry a recurrenceId
modifiedOccurrences(events) ==
  {dateKey(events[i].title, events[i].allDay, events[i].recurrenceId) :
     i \in {j \in 1..Len(events) : events[j].recurrenceId # NoDate}}

modifiedOccurrencesThrows(events) ==
  \E i \in 1..Len(events) :
     /\ events[i].recurrenceId # NoDate
     /\ KeyThrows(events[i].allDay, events[i].recurrenceId)

\* the callback of events.filter(...)
KeepsOccurrence(event, modified) ==
  IF event.sequence # 0 \/ event.recurrenceId # NoDate THEN TRUE
  ELSE dateKey(event.title, event.allDay, event.start) \notin modified

FilterThrows(events) ==
  \E i \in 1..Len(events) :
     /\ ~(events[i].sequence # 0 \/ events[i].recurrenceId # NoDate)
     /\ KeyThrows(events[i].allDay, events[i].start)

RECURSIVE SelectEvents(_, _)
SelectEvents(events, modified) ==
  IF events = <<>> THEN <<>>
  ELSE IF KeepsOccurrence(Head(events), modified)
       THEN <<Head(events)>> \o SelectEvents(Tail(events), modified)
       ELSE SelectEvents(Tail(events), modified)

\* eventMap: a Map keeps its keys in insertion order; set() of a key it
\* already holds replaces the value in place
MapHas(map, key) == \E i \in 1..Len(map) : map[i].key = key
MapGet(map, key) == map[CHOOSE i \in 1..Len(map) : map[i].key = key].event
MapSet(map, key, event) ==
  IF MapHas(map, key)
  THEN [i \in 1..Len(map) |->
          IF map[i].key = key THEN [key |-> key, event |-> event] ELSE map[i]]
  ELSE Append(map, [key |-> key, event |-> event])

DedupState(map, threw) == [map |-> map, threw |-> threw]

\* event.sequence || 0
SeqOrZero(event) == IF event.sequence = NoSeq THEN 0 ELSE event.sequence

\* the body of `for (const event of filtered)`
DedupStep(acc, event) ==
  IF acc.threw \/ KeyThrows(event.allDay, event.start)
  THEN DedupState(acc.map, TRUE)
  ELSE LET key == dateKey(event.title, event.allDay, event.start)
       IN IF ~MapHas(acc.map, key)
          THEN DedupState(MapSet(acc.map, key, event), FALSE)
          ELSE LET existing == MapGet(acc.map, key)
                   existingSeq == SeqOrZero(existing)
                   newSeq == SeqOrZero(event)
               IN IF newSeq > existingSeq
                  THEN DedupState(MapSet(acc.map, key, event), FALSE)
                  ELSE IF newSeq = existingSeq
                          /\ TimeDiffers(event.start, existing.start)
                  THEN IF event.start = InvalidDate
                       THEN DedupState(acc.map, TRUE)
                       ELSE DedupState(MapSet(acc.map, timeKey(event), event),
                                       FALSE)
                  ELSE acc

RECURSIVE DedupLoop(_, _, _)
DedupLoop(acc, events, i) ==
  IF i > Len(events) THEN acc
  ELSE DedupLoop(DedupStep(acc, events[i]), events, i + 1)

\* deduplicateEvents(events): threw tells that a RangeError escaped
deduplicateEvents(events) ==
  IF modifiedOccurrencesThrows(events) \/ FilterThrows(events)
  THEN [threw |-> TRUE, events |-> <<>>]
  ELSE LET filtered == SelectEvents(events, modifiedOccurrences(events))
           acc == DedupLoop(DedupState(<<>>, FALSE), filtered, 1)
       IN IF acc.threw THEN [threw |-> TRUE, events |-> <<>>]
          ELSE [threw |-> FALSE,
                events |-> [i \in 1..Len(acc.map) |-> acc.map[i].event]]

----------------------------------------------------------------------------
(* sortEvents: Array.prototype.sort with the comparator of the code.  A    *)
(* comparator result of NaN counts as 0 (ECMAScript SortCompare).  The     *)
(* order is the one V8 computes for arrays shorter than 64 elements: the   *)
(* leading run is found (and reversed when strictly descending), then the  *)
(* remaining elements are placed by binary insertion.  For a consistent    *)
(* comparator this is the stable ascending order.                          *)

\* (a, b) => all-day first, then a.start.getTime() - b.start.getTime()
compare(a, b) ==
  IF a.allDay /\ ~b.allDay THEN -1
  ELSE IF ~a.allDay /\ b.allDay THEN 1
  ELSE IF a.start = InvalidDate \/ b.start = InvalidDate THEN 0
  ELSE a.start - b.start

RECURSIVE RunEnd(_, _, _)
RunEnd(a, idx, descending) ==
  IF idx = Len(a) THEN idx
  ELSE LET order == compare(a[idx + 1], a[idx])
       IN IF (descending /\ order >= 0) \/ (~descending /\ order < 0)
          THEN idx
          ELSE RunEnd(a, idx + 1, descending)

Reverse(a) == [i \in 1..Len(a) |-> a[Len(a) + 1 - i]]

RECURSIVE InsertionPoint(_, _, _, _)
InsertionPoint(a, pivot, left, right) ==
  IF left >= right THEN left
  ELSE LET mid == left + ((right - left) \div 2)
       IN IF compare(pivot, a[mid + 1]) < 0
          THEN InsertionPoint(a, pivot, left, mid)
          ELSE InsertionPoint(a, pivot, mid + 1, right)

RECURSIVE BinaryInsertionSort(_, _)
BinaryInsertionSort(a, start) ==
  IF start >= Len(a) THEN a
  ELSE LET pivot == a[start + 1]
           left == InsertionPoint(a, pivot, 0, start)
       IN BinaryInsertionSort(SubSeq(a, 1, left) \o <<pivot>>
                                \o SubSeq(a, left + 1, start)
                                \o SubSeq(a, start + 2, Len(a)),
                              start + 1)

sortEvents(events) ==
  IF Len(events) < 2 THEN events
  ELSE LET descending == compare(events[2], events[1]) < 0
           run == RunEnd(events, 2, descending)
           made == IF descending
                   THEN Reverse(SubSeq(events, 1, run))
                          \o SubSeq(events, run + 1, Len(events))
                   ELSE events
       IN BinaryInsertionSort(made, run)

----------------------------------------------------------------------------
(* parseCalendarObjects: a calendar object is [isText, lines]; obj.data    *)
(* that is not a string makes parseICalData throw, which the loop catches. *)

CalendarObject(isText, lines) == [isText |-> isText, lines |-> lines]

ObjectsState(events, used) == [events |-> events, used |-> used]

RECURSIVE ParseObjectsAbort(_, _, _, _, _, _)
\* a loop that gives the whole batch up at the first object that throws
ParseObjectsAbort(acc, objs, i, reqStart, reqEnd, rnd) ==
  IF i > Len(objs) THEN acc
  ELSE IF ~objs[i].isText
  THEN ObjectsState(<<>>, acc.used)
  ELSE LET got == parseICalData(objs[i].lines, reqStart, reqEnd, rnd, acc.used)
       IN ParseObjectsAbort(ObjectsState(acc.events \o got.events, got.used),
                            objs, i + 1, reqStart, reqEnd, rnd)

RECURSIVE ParseObjects(_, _, _, _, _, _)
ParseObjects(acc, objs, i, reqStart, reqEnd, rnd) ==
  IF i > Len(objs) THEN acc
  ELSE IF ~objs[i].isText
  THEN ParseObjects(acc, objs, i + 1, reqStart, reqEnd, rnd)
  ELSE LET got == parseICalData(objs[i].lines, reqStart, reqEnd, rnd, acc.used)
       IN ParseObjects(ObjectsState(acc.events \o got.events, got.used),
                       objs, i + 1, reqStart, reqEnd, rnd)

\* the events pushed by the loop over calendarObjects, before deduplication
ParsedEvents(objs, reqStart, reqEnd, rnd) ==
  ParseObjects(ObjectsState(<<>>, 0), objs, 1, reqStart, reqEnd, rnd)

\* parseCalendarObjects(calendarObjects)
parseCalendarObjects(objs, reqStart, reqEnd, rnd) ==
  deduplicateEvents(ParsedEvents(objs, reqStart, reqEnd, rnd).events)

\* how many times the parse of objs calls Math.random()
RandomDraws(objs, reqStart, reqEnd) ==
  ParsedEvents(objs, reqStart, reqEnd,
               [i \in 1..(Len(objs) * MaxBlocks) |-> "r1"]).used

\* what `return this.sortEvents(events)` hands to the caller, or the throw
Resolve(objs, reqStart, reqEnd, rnd) ==
  LET deduped == parseCalendarObjects(objs, reqStart, reqEnd, rnd)
  IN IF deduped.threw THEN [threw |-> TRUE, events |-> <<>>]
     ELSE [threw |-> FALSE, events |-> sortEvents(deduped.events)]

----------------------------------------------------------------------------
(* Inputs.  A VEVENT block is written from its property lines; blocks that *)
(* share a UID line travel in one calendar object, as a CalDAV server      *)
(* stores them.                                                            *)

Opt(present, line) == IF present THEN <<line>> ELSE <<>>

\* a block: title "" = no SUMMARY line, uid "" = no UID line, and so on
VEvent(title, uid, dtstart, recurrenceId, rrule, status, sequence) ==
  [uid |-> uid,
   lines |-> <<BeginLine>>
             \o Opt(uid # "", Line("UID", "", TextV(uid)))
             \o Opt(title # "", Line("SUMMARY", "", TextV(title)))
             \o dtstart
             \o recurrenceId
             \o Opt(rrule # "", Line("RRULE", "", TextV(rrule)))
             \o Opt(status # "", Line("STATUS", "", TextV(status)))
             \o Opt(sequence # NoSeq, Line("SEQUENCE", "", IntV(sequence)))
             \o <<EndLine>>]

AllDayStart(d) == <<Line("DTSTART", "VALUE=DATE", DateV(d))>>
TimedStart(d, h) == <<Line("DTSTART", "", LocalV(d, h))>>
UtcStart(d, h) == <<Line("DTSTART", "", UtcV(d, h))>>
BareDateStart(d) == <<Line("DTSTART", "", DateV(d))>>
JunkDateStart == <<Line("DTSTART", "VALUE=DATE", TextV("tomorrow"))>>
DateTimeParamStart(d, h) == <<Line("DTSTART", "VALUE=DATE-TIME", LocalV(d, h))>>
TzidStart(d, h) == <<Line("DTSTART", "TZID=Europe/Berlin", LocalV(d, h))>>
NoLine == <<>>
RecurrenceIdDate(d) == <<Line("RECURRENCE-ID", "VALUE=DATE", DateV(d))>>
RecurrenceIdTime(d, h) == <<Line("RECURRENCE-ID", "", LocalV(d, h))>>

RECURSIVE Pack(_, _)
Pack(blocks, i) ==
  IF i > Len(blocks) THEN <<>>
  ELSE LET rest == Pack(blocks, i + 1)
       IN IF /\ i < Len(blocks)
             /\ blocks[i].uid # ""
             /\ blocks[i].uid = blocks[i + 1].uid
          THEN <<CalendarObject(TRUE, blocks[i].lines \o Head(rest).lines)>>
                 \o Tail(rest)
          ELSE <<CalendarObject(TRUE, blocks[i].lines)>> \o rest

\* the calendars of at most MaxBlocks blocks drawn from a set of blocks
CalendarsOf(blocks) ==
  {Pack(bs, 1) : bs \in UNION {[1..n -> blocks] : n \in 0..MaxBlocks}}

\* the windows callers ask for: from local midnight of one day to local
\* midnight of a later day (the UI passes the first and last visible date)
WindowDays == {<<0, MaxDay>>, <<1, MaxDay>>}

----------------------------------------------------------------------------
(* The fetchEvents calls *)

IdleCall ==
  [pc |-> "idle", startDate |-> NoDate, endDate |-> NoDate,
   queryEnd |-> NoDate, events |-> <<>>, error |-> "", rnd |-> <<>>]

\* isConfigured()
isConfigured == serverUrl # "" /\ username # "" /\ password # ""

\* a fetchEvents that stores the window before it tests the credentials
fetchEventsStoreFirst(c, startDate, endDate) ==
  /\ calls[c].pc = "idle"
  /\ requestedStartDate' = startDate
  /\ requestedEndDate' = endDate
  /\ calls' = [calls EXCEPT ![c] =
                 IF serverUrl = "" \/ username = "" \/ password = ""
                 THEN [@ EXCEPT !.pc = "rejected",
                                !.startDate = startDate,
                                !.endDate = endDate,
                                !.error = "CalDAV credentials not configured"]
                 ELSE [@ EXCEPT !.pc = "awaiting",
                                !.startDate = startDate,
                                !.endDate = endDate,
                                !.queryEnd = endDate + DayLen]]
  /\ UNCHANGED <<tz, serverUrl, username, password, calendar, expansion>>

\* fetchEvents(startDate, endDate) up to `await fetch(...)`
fetchEvents(c, startDate, endDate) ==
  /\ calls[c].pc = "idle"
  /\ IF serverUrl = "" \/ username = "" \/ password = ""
     THEN /\ calls' = [calls EXCEPT ![c] =
                         [@ EXCEPT !.pc = "rejected",
                                   !.startDate = startDate,
                                   !.endDate = endDate,
                                   !.error = "CalDAV credentials not configured"]]
          /\ UNCHANGED <<requestedStartDate, requestedEndDate>>
     ELSE /\ requestedStartDate' = startDate
          /\ requestedEndDate' = endDate
          /\ calls' = [calls EXCEPT ![c] =
                         [@ EXCEPT !.pc = "awaiting",
                                   !.startDate = startDate,
                                   !.endDate = endDate,
                                   !.queryEnd = endDate + DayLen]]
  /\ UNCHANGED <<tz, serverUrl, username, password, calendar, expansion>>

\* the proxy answers 200 with { events: calendar }: parse, dedup, sort, return
ProxyResponds(c) ==
  /\ calls[c].pc = "awaiting"
  /\ \E rnd \in [1..RandomDraws(calendar, requestedStartDate, requestedEndDate)
                   -> RandomIds] :
       LET out == Resolve(calendar, requestedStartDate, requestedEndDate, rnd)
       IN calls' = [calls EXCEPT ![c] =
                      IF out.threw
                      THEN [@ EXCEPT !.pc = "rejected", !.error = "RangeError",
                                     !.rnd = rnd]
                      ELSE [@ EXCEPT !.pc = "resolved", !.events = out.events,
                                     !.rnd = rnd]]
  /\ UNCHANGED <<tz, serverUrl, username, password, calendar,
                 requestedStartDate, requestedEndDate, expansion, ui>>

\* the proxy answers with an error status: throw new Error(errorData.error)
ProxyFails(c) ==
  /\ calls[c].pc = "awaiting"
  /\ calls' = [calls EXCEPT ![c] = [@ EXCEPT !.pc = "rejected", !.error = "HTTP"]]
  /\ UNCHANGED <<tz, serverUrl, username, password, calendar,
                 requestedStartDate, requestedEndDate, expansion, ui>>

\* the steps of the given callers, who ask for the given windows
NextIn(callers, windows) ==
  \/ \E c \in callers : \E w \in windows :
        /\ fetchEvents(c, LocalMidnight(w[1]), LocalMidnight(w[2]))
        /\ UNCHANGED ui
  \/ \E c \in callers : ProxyResponds(c)
  \/ \E c \in callers : ProxyFails(c)

NextOf(callers) == NextIn(callers, WindowDays)

\* two callers share the calDAVService instance
Next == NextOf(Callers)

\* one caller alone
NextAlone == NextOf({1})

----------------------------------------------------------------------------
(* CalendarCustomizerApp (color_e_ink_calendar_customizer_react_2560_1440  *)
(* .tsx): the state the CalDAV code of the component reads and writes.     *)
(* inFlight is the set of fetchCalDAVEvents activations that have started  *)
(* and not yet run their finally block; effects counts the runs of the     *)
(* [useCalDAV] effect that React has scheduled and not yet run.            *)

MaxEffects == 2

\* useState(true), useState([]), useState(false), useState(null)
IdleUI ==
  [useCalDAV |-> TRUE, calDAVEvents |-> <<>>, isLoadingEvents |-> FALSE,
   calDAVError |-> "", inFlight |-> {}, effects |-> 0]

\* setIsLoadingEvents(true); setCalDAVError(null), in activation c
StartedUI(u, c) ==
  [u EXCEPT !.isLoadingEvents = TRUE, !.calDAVError = "",
            !.inFlight = @ \cup {c}]

\* fetchCalDAVEvents() up to its await, as activation c: the window is the
\* first and the last visible date
fetchCalDAVEvents(u, c) ==
  /\ c \notin ui.inFlight
  /\ fetchEvents(c, LocalMidnight(0), LocalMidnight(MaxDay))
  /\ ui' = StartedUI(u, c)

\* one run of useEffect(() => { if (useCalDAV && isConfigured()) ... })
EffectRuns ==
  /\ ui.effects > 0
  /\ LET u == [ui EXCEPT !.effects = @ - 1]
     IN IF ui.useCalDAV /\ isConfigured
        THEN \E c \in Callers : fetchCalDAVEvents(u, c)
        ELSE /\ ui' = u
             /\ UNCHANGED <<tz, serverUrl, username, password, calendar,
                            requestedStartDate, requestedEndDate, calls,
                            expansion>>

\* onChange of the CalDAV switch, disabled={!calDAVService.isConfigured()}:
\* setUseCalDAV(e.target.checked)
ToggleCalDAV ==
  /\ isConfigured
  /\ ui.effects < MaxEffects
  /\ ui' = [ui EXCEPT !.useCalDAV = ~@, !.effects = @ + 1]
  /\ UNCHANGED <<tz, serverUrl, username, password, calendar,
                 requestedStartDate, requestedEndDate, calls, expansion>>

\* onClick of the Refresh button, rendered when isConfigured() and
\* useCalDAV, disabled while isLoadingEvents
RefreshEvents ==
  /\ isConfigured
  /\ ui.useCalDAV /\ ~ui.isLoadingEvents
  /\ \E c \in Callers : fetchCalDAVEvents(ui, c)

\* fetchCalDAVEvents after its await: setCalDAVEvents(events) or the catch,
\* then the finally block
fetchCalDAVEventsSettles(c) ==
  /\ c \in ui.inFlight
  /\ calls[c].pc \in {"resolved", "rejected"}
  /\ ui' = [ui EXCEPT
              !.calDAVEvents = IF calls[c].pc = "resolved"
                               THEN calls[c].events ELSE @,
              !.calDAVError = IF calls[c].pc = "rejected"
                              THEN calls[c].error ELSE @,
              !.isLoadingEvents = FALSE,
              !.inFlight = @ \ {c}]
  /\ calls' = [calls EXCEPT ![c] = IdleCall]
  /\ UNCHANGED <<tz, serverUrl, username, password, calendar,
                 requestedStartDate, requestedEndDate, expansion>>

NextUI ==
  \/ EffectRuns
  \/ ToggleCalDAV
  \/ RefreshEvents
  \/ \E c \in Callers : ProxyResponds(c)
  \/ \E c \in Callers : ProxyFails(c)
  \/ \E c \in Callers : fetchCalDAVEventsSettles(c)

----------------------------------------------------------------------------
(* The hand-written expandRecurringEvent of the CalDAVService copy in      *)
(* color_e_ink_calendar_customizer_react_2560_1440.tsx: one loop per       *)
(* frequency.  `expansion` is one activation of it: its position, its      *)
(* argument and its locals.                                                *)
(*                                                                         *)
(* Civil time.  Epoch day 0 is a Sunday, the first day of the first month  *)
(* of year 2025; the months of a year have MonthDays days.                 *)

MonthDays == <<3, 2>>
MonthsPerYear == Len(MonthDays)

RECURSIVE MonthStart(_)
\* the days of a year before its month m (0 = the first month)
MonthStart(m) == IF m = 0 THEN 0 ELSE MonthStart(m - 1) + MonthDays[m]

YearLen == MonthStart(MonthsPerYear)

\* Date.getHours() and the rest of the local time of day
getHours(t) == (t + tz) % DayLen

getFullYear(t) == 2025 + (LocalDay(t) \div YearLen)

getMonth(t) ==
  CHOOSE m \in 0..(MonthsPerYear - 1) :
     /\ MonthStart(m) <= LocalDay(t) % YearLen
     /\ LocalDay(t) % YearLen < MonthStart(m + 1)

getDate(t) == (LocalDay(t) % YearLen) - MonthStart(getMonth(t)) + 1

\* new Date(year, month, date, hours): local time, month and date overflow
\* carried over as the Date constructor does
NewDate(year, month, date, hours) ==
  LET y == year + (month \div MonthsPerYear)
      m == month % MonthsPerYear
  IN ((y - 2025) * YearLen + MonthStart(m) + date - 1) * DayLen + hours - tz

DayNames == <<"SU", "MO", "TU", "WE", "TH", "FR", "SA">>

\* ['SU', ...][date.getDay()] and ['SU', ...][date.getUTCDay()]
getDay(t) == DayNames[(LocalDay(t) % 7) + 1]
getUTCDay(t) == DayNames[(UTCDay(t) % 7) + 1]

\* the text of an RRULE value, part by part: NAME=value;NAME=value
RulePart(name, value) == [name |-> name, value |-> value]

\* rrule.includes('FREQ=' + freq)
includesFreq(rrule, freq) ==
  \E k \in 1..Len(rrule) : rrule[k] = RulePart("FREQ", freq)

\* rrule.match(/INTERVAL=(\d+)/), parseInt of the digits, 1 without a match
intervalOf(rrule) ==
  LET found == {k \in 1..Len(rrule) :
                  rrule[k].name = "INTERVAL" /\ rrule[k].value \in Nat}
  IN IF found = {} THEN 1
     ELSE rrule[CHOOSE k \in found : \A j \in found : k <= j].value

\* rrule.match(/BYDAY=([A-Z,]+)/), split at the commas, [] without a match
bydayOf(rrule) ==
  LET found == {k \in 1..Len(rrule) : rrule[k].name = "BYDAY"}
  IN IF found = {} THEN <<>>
     ELSE rrule[CHOOSE k \in found : \A j \in found : k <= j].value

\* const maxIterations = 100 (MONTHLY, WEEKLY), 365 (DAILY)
maxIterations(pc) == IF pc = "daily" THEN 365 ELSE 100

IdleExpansion ==
  [pc |-> "idle", event |-> EmptyEvent, currentDate |-> NoDate, year |-> 0,
   iterations |-> 0, expanded |-> <<>>, result |-> <<>>]

\* the object pushed onto `expanded`
ExpandedEvent(event, stamp, start) ==
  LET duration == IF IsInstant(event.end) THEN event.end - event.start ELSE 0
  IN Event(event.id \o "_" \o ToString(stamp), event.title, start,
           IF duration > 0 THEN start + duration ELSE start,
           event.allDay, NoSeq, NoDate)

\* a loop test that lets the pass numbered maxIterations through
LoopContinuesOneMore ==
  /\ expansion.currentDate <= requestedEndDate
  /\ expansion.iterations <= maxIterations(expansion.pc)

\* while (currentDate <= this.requestedEndDate && iterations < maxIterations)
LoopContinues ==
  /\ expansion.currentDate <= requestedEndDate
  /\ expansion.iterations < maxIterations(expansion.pc)

\* expandRecurringEvent(event) up to the branch on the frequency
ExpandEnter ==
  /\ expansion.pc = "called"
  /\ LET rrule == expansion.event.rrule
         loop(pc) == [expansion EXCEPT
                        !.pc = pc, !.currentDate = expansion.event.start]
     IN expansion' =
          IF requestedStartDate = NoDate \/ requestedEndDate = NoDate
          THEN [expansion EXCEPT !.pc = "returned",
                                 !.result = <<RawEvent(expansion.event)>>]
          ELSE IF includesFreq(rrule, "YEARLY")
          THEN [expansion EXCEPT !.pc = "yearly",
                                 !.year = getFullYear(requestedStartDate)]
          ELSE IF includesFreq(rrule, "MONTHLY") THEN loop("monthly")
          ELSE IF includesFreq(rrule, "WEEKLY") THEN loop("weekly")
          ELSE IF includesFreq(rrule, "DAILY") THEN loop("daily")
          ELSE [expansion EXCEPT !.pc = "returned",
                                 !.result = <<RawEvent(expansion.event)>>]
  /\ UNCHANGED <<tz, serverUrl, username, password, calendar,
                 requestedStartDate, requestedEndDate, calls, ui>>

\* one pass of `for (let year = startYear; year <= endYear; year++)`
ExpandYearly ==
  /\ expansion.pc = "yearly"
  /\ expansion.year <= getFullYear(requestedEndDate)
  /\ LET event == expansion.event
         dtstart == event.start
         year == expansion.year
         occurrence == NewDate(year, getMonth(dtstart), getDate(dtstart), 0)
         start == IF event.allDay THEN occurrence
                  ELSE NewDate(year, getMonth(dtstart), getDate(dtstart),
                               getHours(dtstart))
     IN expansion' =
          [expansion EXCEPT
             !.year = year + 1,
             !.expanded =
                IF occurrence >= requestedStartDate /\ occurrence <= requestedEndDate
                THEN Append(@, ExpandedEvent(event, year, start))
                ELSE @]
  /\ UNCHANGED <<tz, serverUrl, username, password, calendar,
                 requestedStartDate, requestedEndDate, calls, ui>>

\* one pass of the MONTHLY loop
ExpandMonthly ==
  /\ expansion.pc = "monthly"
  /\ LoopContinues
  /\ LET event == expansion.event
         currentDate == expansion.currentDate
     IN expansion' =
          [expansion EXCEPT
             !.expanded = IF currentDate >= requestedStartDate
                          THEN Append(@, ExpandedEvent(event, currentDate,
                                                       currentDate))
                          ELSE @,
             !.currentDate = NewDate(getFullYear(currentDate),
                                     getMonth(currentDate) + intervalOf(event.rrule),
                                     getDate(currentDate), 0),
             !.iterations = @ + 1]
  /\ UNCHANGED <<tz, serverUrl, username, password, calendar,
                 requestedStartDate, requestedEndDate, calls, ui>>

\* one pass of the WEEKLY loop
ExpandWeekly ==
  /\ expansion.pc = "weekly"
  /\ LoopContinues
  /\ LET event == expansion.event
         currentDate == expansion.currentDate
         byday == bydayOf(event.rrule)
         dayOfWeek == IF event.allDay THEN getUTCDay(currentDate)
                                      ELSE getDay(currentDate)
         matchesByday == IF Len(byday) = 0 THEN TRUE
                         ELSE \E k \in 1..Len(byday) : byday[k] = dayOfWeek
         occurrenceDate == IF event.allDay
                           THEN LocalMidnight(UTCDay(currentDate))
                           ELSE currentDate
     IN expansion' =
          [expansion EXCEPT
             !.expanded = IF matchesByday /\ currentDate >= requestedStartDate
                          THEN Append(@, ExpandedEvent(event, currentDate,
                                                       occurrenceDate))
                          ELSE @,
             !.currentDate = currentDate + intervalOf(event.rrule) * 7 * DayLen,
             !.iterations = @ + 1]
  /\ UNCHANGED <<tz, serverUrl, username, password, calendar,
                 requestedStartDate, requestedEndDate, calls, ui>>

\* one pass of the DAILY loop
ExpandDaily ==
  /\ expansion.pc = "daily"
  /\ LoopContinues
  /\ LET event == expansion.event
         currentDate == expansion.currentDate
     IN expansion' =
          [expansion EXCEPT
             !.expanded = IF currentDate >= requestedStartDate
                          THEN Append(@, ExpandedEvent(event, currentDate,
                                                       currentDate))
                          ELSE @,
             !.currentDate = currentDate + intervalOf(event.rrule) * DayLen,
             !.iterations = @ + 1]
  /\ UNCHANGED <<tz, serverUrl, username, password, calendar,
                 requestedStartDate, requestedEndDate, calls, ui>>

\* return expanded.length > 0 ? expanded : [event], once the loop is left
ExpandReturn ==
  /\ \/ expansion.pc = "yearly" /\ expansion.year > getFullYear(requestedEndDate)
     \/ expansion.pc \in {"monthly", "weekly", "daily"} /\ ~LoopContinues
  /\ expansion' =
       [expansion EXCEPT
          !.pc = "returned",
          !.result = IF Len(expansion.expanded) > 0 THEN expansion.expanded
                     ELSE <<RawEvent(expansion.event)>>]
  /\ UNCHANGED <<tz, serverUrl, username, password, calendar,
                 requestedStartDate, requestedEndDate, calls, ui>>

NextExpand ==
  \/ ExpandEnter
  \/ ExpandYearly
  \/ ExpandMonthly
  \/ ExpandWeekly
  \/ ExpandDaily
  \/ ExpandReturn

\* the VITE_CALDAV_* settings of a build: all set, or one of them missing
Environments ==
  {<<"https://dav", "user", "secret">>, <<"", "user", "secret">>,
   <<"https://dav", "", "secret">>, <<"https://dav", "user", "">>}

InitWith(calendars) ==
  /\ tz \in TimeZones
  /\ \E env \in Environments :
        serverUrl = env[1] /\ username = env[2] /\ password = env[3]
  /\ calendar \in calendars
  /\ requestedStartDate = NoDate
  /\ requestedEndDate = NoDate
  /\ calls = [c \in Callers |-> IdleCall]
  /\ expansion = IdleExpansion
  /\ ui = IdleUI

----------------------------------------------------------------------------
(* Specifications: the same program over different sets of calendars *)

\* overlapping calls: standalone records, a daily master, a block without UID
Blocks ==
  {VEvent("A", "u1", TimedStart(0, 0), NoLine, "", "", NoSeq),
   VEvent("A", "u1", TimedStart(1, 1), NoLine, "", "", NoSeq),
   VEvent("A", "u2", AllDayStart(1), NoLine, "", "", NoSeq),
   VEvent("B", "u3", TimedStart(0, 0), NoLine, "FREQ=DAILY", "", NoSeq),
   VEvent("B", "", TimedStart(1, 1), NoLine, "", "", 1)}

Init == InitWith(CalendarsOf(Blocks))

Spec == Init /\ [][Next]_vars

\* blocks that lack a property or are cancelled, beside well-formed ones
ParseBlocks ==
  {VEvent("A", "u1", TimedStart(0, 0), NoLine, "", "", NoSeq),
   VEvent("A", "u1", NoLine, NoLine, "", "", NoSeq),
   VEvent("B", "u1", AllDayStart(1), NoLine, "", "", NoSeq),
   VEvent("", "u2", TimedStart(1, 0), NoLine, "", "", NoSeq),
   VEvent("A", "u2", TimedStart(1, 0), NoLine, "", "CANCELLED", NoSeq),
   VEvent("A", "u3", TimedStart(0, 0), NoLine, "FREQ=DAILY", "", NoSeq),
   VEvent("A", "u3", TimedStart(0, 0), NoLine, "FREQ=DAILY", "CANCELLED", NoSeq),
   VEvent("A", "u3", TimedStart(1, 1), RecurrenceIdTime(1, 0), "", "CANCELLED", 1),
   VEvent("B", "", AllDayStart(1), NoLine, "", "CONFIRMED", NoSeq)}

InitParse == InitWith(CalendarsOf(ParseBlocks))

SpecParse == InitParse /\ [][NextAlone]_vars

\* DTSTART values that do not parse, beside all-day and timed records
MalformedBlocks ==
  {VEvent("A", "u1", AllDayStart(d), NoLine, "", "", NoSeq) : d \in 1..MaxDay}
  \cup {VEvent("A", "u3", JunkDateStart, NoLine, "", "", NoSeq),
        VEvent("A", "u4", BareDateStart(1), NoLine, "", "", NoSeq),
        VEvent("B", "u5", TimedStart(0, 1), NoLine, "", "", NoSeq),
        VEvent("B", "u6", UtcStart(MaxDay, 1), NoLine, "", "", NoSeq),
        VEvent("B", "u7", TimedStart(0, 0), NoLine, "FREQ=WEEKLY", "", NoSeq)}

InitMalformed == InitWith(CalendarsOf(MalformedBlocks))

SpecMalformed == InitMalformed /\ [][NextAlone]_vars

\* one title: a daily master, overrides of its second occurrence, and
\* standalone records of one day with sequence numbers
DedupBlocks ==
  {VEvent("A", "u1", TimedStart(0, 0), NoLine, "FREQ=DAILY", "", NoSeq),
   VEvent("A", "u1", TimedStart(1, 1), RecurrenceIdTime(1, 0), "", "", NoSeq),
   VEvent("A", "u1", TimedStart(2, 1), RecurrenceIdTime(1, 0), "", "", 1),
   VEvent("A", "u2", TimedStart(1, 0), NoLine, "", "", 0),
   VEvent("A", "u3", TimedStart(1, 1), NoLine, "", "", 0),
   VEvent("A", "u4", TimedStart(1, 1), NoLine, "", "", 1),
   VEvent("A", "u5", AllDayStart(1), NoLine, "", "", 1),
   VEvent("A", "u6", TimedStart(1, 0), NoLine, "", "", 1)}

InitDedup == InitWith(CalendarsOf(DedupBlocks))

SpecDedup == InitDedup /\ [][NextAlone]_vars

\* a block with EXDATE lines added before its END:VEVENT
WithExdate(block, exdate) ==
  [uid |-> block.uid,
   lines |-> SubSeq(block.lines, 1, Len(block.lines) - 1) \o exdate
               \o <<EndLine>>]

ExdateDate(d) == <<Line("EXDATE", "VALUE=DATE", DateV(d))>>
ExdateTime(d, h) == <<Line("EXDATE", "", LocalV(d, h))>>

\* recurring masters: all-day and timed, with and without EXDATE, one that
\* starts after every window, beside a standalone record
RecurBlocks ==
  {VEvent("A", "u1", AllDayStart(0), NoLine, "FREQ=DAILY", "", NoSeq),
   VEvent("B", "u2", TimedStart(0, 1), NoLine, "FREQ=DAILY;INTERVAL=2", "", NoSeq),
   VEvent("C", "u3", TimedStart(1, 0), NoLine, "FREQ=WEEKLY", "", NoSeq),
   VEvent("C", "u4", TimedStart(MaxDay, 1), NoLine, "FREQ=DAILY", "", NoSeq),
   VEvent("D", "u5", TimedStart(1, 1), NoLine, "", "", NoSeq),
   WithExdate(VEvent("D", "u6", TimedStart(1, 0), NoLine, "FREQ=WEEKLY", "", NoSeq),
              ExdateTime(1, 0)),
   WithExdate(VEvent("E", "u7", TimedStart(0, 0), NoLine, "FREQ=DAILY", "", NoSeq),
              ExdateTime(1, 0)),
   WithExdate(VEvent("E", "u8", AllDayStart(0), NoLine, "FREQ=DAILY", "", NoSeq),
              ExdateDate(1))}

InitRecur == InitWith(CalendarsOf(RecurBlocks))

SpecRecur == InitRecur /\ [][NextAlone]_vars

\* the master handed to the hand-written expansion: its fields after the parse
Master(id, title, start, end, allDay, rrule) ==
  [EmptyEvent EXCEPT !.id = id, !.title = title, !.start = start, !.end = end,
                     !.allDay = allDay, !.rrule = rrule]

Freq(freq) == <<RulePart("FREQ", freq)>>
FreqInterval(freq, n) == <<RulePart("FREQ", freq), RulePart("INTERVAL", n)>>

\* local time h of calendar day d
LocalTime(d, h) == LocalMidnight(d) + h

\* masters of every frequency, timed and all-day, with INTERVAL=0 and with
\* BYDAY; day 1 is a Monday
ExpandMasters ==
  {Master("u1", "Standup", LocalTime(1, 1), NoDate, FALSE,
          FreqInterval("WEEKLY", 1) \o <<RulePart("BYDAY", <<"MO", "WE", "FR">>)>>),
   Master("u2", "A", LocalTime(1, 0), NoDate, FALSE, Freq("WEEKLY")),
   Master("u3", "A", LocalMidnight(1), NoDate, TRUE, FreqInterval("WEEKLY", 2)),
   Master("u4", "A", LocalTime(1, 1), NoDate, FALSE, FreqInterval("WEEKLY", 0)),
   Master("u5", "B", LocalTime(0, 1), LocalTime(1, 0), FALSE, Freq("DAILY")),
   Master("u6", "B", LocalMidnight(0), NoDate, TRUE, FreqInterval("DAILY", 2)),
   Master("u7", "B", LocalTime(1, 0), NoDate, FALSE, FreqInterval("DAILY", 0)),
   Master("u8", "C", LocalTime(2, 1), NoDate, FALSE, Freq("MONTHLY")),
   Master("u9", "C", LocalTime(1, 0), NoDate, FALSE, FreqInterval("MONTHLY", 0)),
   Master("u10", "D", LocalTime(1, 1), NoDate, FALSE, Freq("YEARLY")),
   Master("u11", "D", LocalMidnight(1), NoDate, TRUE, Freq("YEARLY")),
   Master("u12", "E", LocalTime(1, 0), NoDate, FALSE, Freq("HOURLY")),
   Master("u13", "F", LocalTime(1, 1), NoDate, FALSE,
          Freq("WEEKLY") \o <<RulePart("BYDAY", <<"WE">>)>>),
   Master("u14", "F", LocalMidnight(1), NoDate, TRUE,
          Freq("WEEKLY") \o <<RulePart("BYDAY", <<"SU", "MO">>)>>)}

\* the first day the WEEKLY loop cannot reach from day 1
FarDay == 1 + 7 * maxIterations("weekly")

\* the week that starts on Monday day 1, a short window, a window far from
\* the masters and a window with a far end
ExpandWindows ==
  {<<1, 8>>, <<0, MaxDay>>, <<FarDay, FarDay + 1>>, <<0, FarDay + 1>>}

\* a call awaits the proxy and the parse hands a master to the expansion
InitExpand ==
  /\ tz \in TimeZones
  /\ serverUrl = "https://dav" /\ username = "user" /\ password = "secret"
  /\ calendar = <<>>
  /\ \E w \in ExpandWindows :
        /\ requestedStartDate = LocalMidnight(w[1])
        /\ requestedEndDate = LocalMidnight(w[2])
        /\ calls = [c \in Callers |->
                      IF c = 1
                      THEN [IdleCall EXCEPT
                              !.pc = "awaiting",
                              !.startDate = LocalMidnight(w[1]),
                              !.endDate = LocalMidnight(w[2]),
                              !.queryEnd = LocalMidnight(w[2]) + DayLen]
                      ELSE IdleCall]
  /\ \E event \in ExpandMasters :
        expansion = [IdleExpansion EXCEPT !.pc = "called", !.event = event]
  /\ ui = IdleUI

SpecExpand == InitExpand /\ [][NextExpand]_vars

\* the loops run in one synchronous call: a step that can be taken is taken
SpecExpandFair == SpecExpand /\ WF_vars(NextExpand)

\* a block with further property lines before its END:VEVENT
WithLines(block, lines) ==
  [uid |-> block.uid,
   lines |-> SubSeq(block.lines, 1, Len(block.lines) - 1) \o lines
               \o <<EndLine>>]

DtendTime(d, h) == <<Line("DTEND", "", LocalV(d, h))>>

\* a daily master, overrides of its second occurrence with and without an
\* RRULE of their own, an all-day override with an RRULE, a standalone record
OverrideBlocks ==
  {VEvent("A", "u1", TimedStart(0, 0), NoLine, "FREQ=DAILY", "", NoSeq),
   VEvent("A", "u1", TimedStart(1, 1), RecurrenceIdTime(1, 0), "FREQ=DAILY", "", 1),
   WithLines(VEvent("A", "u1", TimedStart(1, 1), RecurrenceIdTime(1, 0), "", "", NoSeq),
             DtendTime(2, 0)),
   VEvent("B", "u2", AllDayStart(1), RecurrenceIdDate(1), "FREQ=WEEKLY", "", NoSeq),
   VEvent("B", "u3", TimedStart(MaxDay, 0), NoLine, "", "", NoSeq)}

InitOverride == InitWith(CalendarsOf(OverrideBlocks))

SpecOverride == InitOverride /\ [][NextAlone]_vars

\* one record per way of writing DTSTART: a date with VALUE=DATE, a local
\* and a UTC date-time, a date-time with VALUE=DATE-TIME and with TZID
FlagBlocks ==
  {VEvent("A", "u1", AllDayStart(1), NoLine, "", "", NoSeq),
   VEvent("B", "u2", TimedStart(1, 1), NoLine, "", "", NoSeq),
   VEvent("C", "u3", UtcStart(1, 0), NoLine, "", "", NoSeq),
   VEvent("D", "u4", DateTimeParamStart(1, 1), NoLine, "", "", NoSeq),
   VEvent("E", "u5", TzidStart(1, 1), NoLine, "", "", NoSeq),
   VEvent("F", "u6", AllDayStart(0), NoLine, "FREQ=DAILY", "", NoSeq)}

InitFlag == InitWith(CalendarsOf(FlagBlocks))

SpecFlag == InitFlag /\ [][NextAlone]_vars

\* the text of one calendar object in pieces: VEVENT blocks (one with every
\* property, one without UID, one without SUMMARY, one without DTSTART, a
\* cancelled one), the lines of a VTIMEZONE-like component outside any
\* VEVENT, and an END:VEVENT that closes nothing
BoundaryPieces ==
  {WithLines(VEvent("A", "u1", AllDayStart(0), NoLine, "FREQ=DAILY", "CONFIRMED", 1),
             ExdateDate(1) \o <<Line("DTEND", "VALUE=DATE", DateV(1))>>).lines,
   VEvent("B", "", TimedStart(1, 1), NoLine, "", "", NoSeq).lines,
   VEvent("", "u3", TimedStart(0, 1), NoLine, "", "", NoSeq).lines,
   VEvent("C", "u4", NoLine, NoLine, "", "", NoSeq).lines,
   VEvent("C", "u5", TimedStart(1, 0), NoLine, "", "CANCELLED", NoSeq).lines,
   <<Line("UID", "", TextV("z")), Line("SUMMARY", "", TextV("Z")),
     Line("DTSTART", "", LocalV(0, 0)), Line("RRULE", "", TextV("FREQ=WEEKLY")),
     Line("STATUS", "", TextV("CANCELLED")), Line("SEQUENCE", "", IntV(1))>>,
   <<EndLine>>}

RECURSIVE Flatten(_, _)
Flatten(pieces, i) ==
  IF i > Len(pieces) THEN <<>> ELSE pieces[i] \o Flatten(pieces, i + 1)

\* calendars of one object whose text is at most MaxBlocks pieces long
BoundaryCalendars ==
  {<<CalendarObject(TRUE, Flatten(ps, 1))>> :
     ps \in UNION {[1..n -> BoundaryPieces] : n \in 0..MaxBlocks}}

InitBoundary == InitWith(BoundaryCalendars)

SpecBoundary == InitBoundary /\ [][NextAlone]_vars

\* calendar objects with text, and one whose data is not a string
BatchObjects ==
  {CalendarObject(TRUE, VEvent("A", "u1", TimedStart(1, 1), NoLine, "", "", NoSeq).lines),
   CalendarObject(TRUE, VEvent("B", "u2", AllDayStart(1), NoLine, "", "", NoSeq).lines),
   CalendarObject(TRUE, VEvent("C", "u3", TimedStart(0, 0), NoLine, "FREQ=DAILY", "", NoSeq).lines),
   CalendarObject(FALSE, <<>>)}

\* the batches the proxy can answer with: it reads sample.data.substring of
\* the first object before it answers, so the first object is a text
BatchCalendars ==
  {objs \in UNION {[1..n -> BatchObjects] : n \in 0..MaxBlocks} :
     Len(objs) > 0 => objs[1].isText}

InitBatch == InitWith(BatchCalendars)

SpecBatch == InitBatch /\ [][NextAlone]_vars

\* one title: two timed daily series and an all-day daily series with UIDs
\* of their own, and overrides of the second day of the first series
SameTitleBlocks ==
  {VEvent("A", "u1", TimedStart(0, 0), NoLine, "FREQ=DAILY", "", NoSeq),
   VEvent("A", "u2", TimedStart(0, 1), NoLine, "FREQ=DAILY", "", NoSeq),
   VEvent("A", "u3", AllDayStart(0), NoLine, "FREQ=DAILY", "", NoSeq),
   VEvent("A", "u1", TimedStart(1, 1), RecurrenceIdTime(1, 0), "", "", 1),
   VEvent("A", "u1", TimedStart(MaxDay, 0), RecurrenceIdTime(1, 0), "", "", 1)}

InitSameTitle == InitWith(CalendarsOf(SameTitleBlocks))

SpecSameTitle == InitSameTitle /\ [][NextAlone]_vars

\* the component is mounted: React runs the effect once, and once more
\* under React.StrictMode in a development build
UIBlocks ==
  {VEvent("A", "u1", TimedStart(1, 1), NoLine, "", "", NoSeq),
   VEvent("B", "u2", AllDayStart(1), NoLine, "", "", NoSeq)}

InitUI ==
  /\ tz \in TimeZones
  /\ \E env \in Environments :
        serverUrl = env[1] /\ username = env[2] /\ password = env[3]
  /\ calendar \in CalendarsOf(UIBlocks)
  /\ requestedStartDate = NoDate
  /\ requestedEndDate = NoDate
  /\ calls = [c \in Callers |-> IdleCall]
  /\ expansion = IdleExpansion
  /\ \E n \in 1..2 : ui = [IdleUI EXCEPT !.effects = n]

SpecUI == InitUI /\ [][NextUI]_vars

\* a caller that may also pass a window whose start is later than its end
AnyWindowDays == WindowDays \cup {<<MaxDay, 0>>}

NextAnyWindow == NextIn({1}, AnyWindowDays)

SpecAnyWindow == InitRecur /\ [][NextAnyWindow]_vars

----------------------------------------------------------------------------
(* Vocabulary of the properties *)

Resolved(c) == calls[c].pc = "resolved"
Threw(c) == calls[c].pc = "rejected" /\ calls[c].error = "RangeError"
Returned(c) == calls[c].events
NumEvents(c) == Len(calls[c].events)

\* what call c yields when it runs alone on the instance, with its own window
Alone(c, objs) == Resolve(objs, calls[c].startDate, calls[c].endDate, calls[c].rnd)

\* the blocks of a well-formed text, as line sequences
BlockEnd(lines, i) ==
  CHOOSE j \in i..Len(lines) :
     lines[j] = EndLine /\ \A k \in i..(j - 1) : lines[k] # EndLine

HasProperty(block, name) == \E k \in 1..Len(block) : block[k].name = name

\* the properties of one block, as the parser reads them
Properties(block) ==
  ParseLines(ParseState(<<>>, EmptyEvent, TRUE, 0),
             SubSeq(block, 2, Len(block) - 1), 1, NoDate, NoDate, <<>>).cur

IsCancelledBlock(block) ==
  \E k \in 1..Len(block) :
     block[k].name = "STATUS" /\ block[k].v.s = "CANCELLED"

IsDefectiveBlock(block) ==
  ~HasProperty(block, "DTSTART") \/ ~HasProperty(block, "SUMMARY")

Dropped(block, what) ==
  \/ what = "cancelled" /\ IsCancelledBlock(block)
  \/ what = "defective" /\ IsDefectiveBlock(block)
  \/ what = "malformed" /\ Properties(block).start = InvalidDate

RECURSIVE StripLines(_, _, _)
StripLines(lines, i, what) ==
  IF i > Len(lines) THEN <<>>
  ELSE IF lines[i] = BeginLine
  THEN LET j == BlockEnd(lines, i)
           block == SubSeq(lines, i, j)
       IN (IF Dropped(block, what) THEN <<>> ELSE block)
            \o StripLines(lines, j + 1, what)
  ELSE <<lines[i]>> \o StripLines(lines, i + 1, what)

\* the calendar without its cancelled (defective, malformed) blocks
Strip(objs, what) ==
  [k \in 1..Len(objs) |->
     CalendarObject(objs[k].isText, StripLines(objs[k].lines, 1, what))]

RECURSIVE BlocksOfLines(_, _)
BlocksOfLines(lines, i) ==
  IF i > Len(lines) THEN <<>>
  ELSE IF lines[i] = BeginLine
  THEN <<SubSeq(lines, i, BlockEnd(lines, i))>>
         \o BlocksOfLines(lines, BlockEnd(lines, i) + 1)
  ELSE BlocksOfLines(lines, i + 1)

RECURSIVE BlocksOf(_, _)
BlocksOf(objs, k) ==
  IF k > Len(objs) THEN <<>>
  ELSE BlocksOfLines(objs[k].lines, 1) \o BlocksOf(objs, k + 1)

\* the blocks of the calendar, read
Records == LET bs == BlocksOf(calendar, 1)
           IN [k \in 1..Len(bs) |-> Properties(bs[k])]

WellFormed(r) == r.title # "" /\ IsInstant(r.start) /\ r.status # "CANCELLED"

InWindow(e, startDate, endDate) ==
  \/ IsInstant(e.start) /\ e.start >= startDate /\ e.start <= endDate
  \/ /\ e.allDay /\ IsInstant(e.start) /\ IsInstant(e.end)
     /\ e.start <= endDate /\ e.end >= startDate

----------------------------------------------------------------------------
(* C1.  Window containment: every occurrence fetchEvents(startDate,        *)
(* endDate) returns has its start inside [startDate, endDate] (an all-day  *)
(* span may instead overlap the window), whether it comes from a           *)
(* standalone record, an override or an expanded master.                   *)
WindowContainment ==
  \A c \in Callers :
     Resolved(c) =>
       \A i \in 1..NumEvents(c) :
          InWindow(Returned(c)[i], calls[c].startDate, calls[c].endDate)

----------------------------------------------------------------------------
(* C2.  Override precedence: a recurring master and one override of the    *)
(* same title whose RECURRENCE-ID falls on the day of an in-window         *)
(* occurrence resolve to the override plus the other occurrences: the      *)
(* override is in the output with its own start and end, no expanded       *)
(* occurrence of that day is, and the output has exactly as many           *)
(* occurrences as the master has expansion dates in the window.            *)

\* the in-window occurrences of master record m for call c
Expansion(m, c) ==
  LET occurrences == between(m.rrule, m.start, m.exdates,
                             calls[c].startDate, calls[c].endDate)
  IN [k \in 1..Len(occurrences) |-> Occurrence(m, occurrences[k])]

IsMaster(r) == WellFormed(r) /\ r.recurrenceId = NoDate /\ rruleParses(r.rrule)
IsOverride(r) == WellFormed(r) /\ IsInstant(r.recurrenceId)
IsStandalone(r) == WellFormed(r) /\ r.recurrenceId = NoDate /\ r.rrule = ""

\* record o overrides an in-window occurrence of master m
Overrides(o, m, c) ==
  /\ IsMaster(m) /\ IsOverride(o)
  /\ o.title = m.title /\ o.allDay = m.allDay
  /\ \E k \in 1..Len(Expansion(m, c)) :
        dateKey(m.title, m.allDay, Expansion(m, c)[k].start)
          = dateKey(o.title, o.allDay, o.recurrenceId)

OverridePrecedence ==
  \A c \in Callers : \A m, o \in 1..Len(Records) :
     (Resolved(c) /\ Len(Records) = 2 /\ m # o
        /\ Overrides(Records[o], Records[m], c))
     => LET ov == Records[o]
            out == Returned(c)
        IN /\ \E i \in 1..Len(out) :
                 /\ out[i].recurrenceId = ov.recurrenceId
                 /\ out[i].title = ov.title
                 /\ out[i].start = ov.start
                 /\ out[i].end = ov.end
           /\ \A i \in 1..Len(out) :
                 out[i].recurrenceId = NoDate =>
                    dateKey(out[i].title, out[i].allDay, out[i].start)
                      # dateKey(ov.title, ov.allDay, ov.recurrenceId)
           /\ Len(out) = Len(Expansion(Records[m], c))

----------------------------------------------------------------------------
(* C3.  No duplicate identity: no two occurrences of a returned list have  *)
(* both the same title and the same exact start instant.                   *)
NoDuplicateIdentity ==
  \A c \in Callers :
     Resolved(c) =>
       \A i, j \in 1..NumEvents(c) :
          (i # j /\ IsInstant(Returned(c)[i].start))
          => ~(/\ Returned(c)[i].title = Returned(c)[j].title
               /\ Returned(c)[i].start = Returned(c)[j].start)

----------------------------------------------------------------------------
(* C5.  Concurrent calls are independent: two fetchEvents calls in flight  *)
(* at the same time on the shared calDAVService each resolve to what the   *)
(* call would return if it ran alone with its own window; the window of    *)
(* one call never decides the expansion of the other.                      *)
ConcurrentCallsIndependent ==
  \A c \in Callers :
     Resolved(c) => Returned(c) = Alone(c, calendar).events

----------------------------------------------------------------------------
(* C8.  Malformed dates are tolerated: a VEVENT block whose DTSTART cannot *)
(* be parsed is left out of the output, the call does not throw because of *)
(* it, and the other blocks of the batch resolve as they would without it. *)
MalformedDatesTolerated ==
  \A c \in Callers :
     /\ calls[c].error # "RangeError"
     /\ Resolved(c) =>
          /\ \A i \in 1..NumEvents(c) : Returned(c)[i].start # InvalidDate
          /\ Returned(c) = Alone(c, Strip(calendar, "malformed")).events

----------------------------------------------------------------------------
(* C6.  Sort order: in a returned list every all-day occurrence precedes   *)
(* every timed occurrence, and occurrences of the same kind are in         *)
(* ascending order of start.                                               *)
SortOrder ==
  \A c \in Callers :
     Resolved(c) =>
       \A i, j \in 1..NumEvents(c) :
          i < j =>
            LET a == Returned(c)[i]
                b == Returned(c)[j]
            IN /\ a.allDay \/ ~b.allDay
               /\ (a.allDay = b.allDay /\ IsInstant(a.start) /\ IsInstant(b.start))
                  => a.start <= b.start

----------------------------------------------------------------------------
(* C7.  Sequence supersession: two records of the same title that start on *)
(* the same calendar day, one with SEQUENCE 0 and one with SEQUENCE 1,     *)
(* resolve to exactly one occurrence, the one of the SEQUENCE 1 record,    *)
(* in whichever order the two records arrive.                              *)
SequenceSupersession ==
  \A c \in Callers : \A lo, hi \in 1..Len(Records) :
     (/\ Resolved(c) /\ Len(Records) = 2 /\ lo # hi
      /\ IsStandalone(Records[lo]) /\ IsStandalone(Records[hi])
      /\ Records[lo].title = Records[hi].title
      /\ LocalDay(Records[lo].start) = LocalDay(Records[hi].start)
      /\ Records[lo].sequence = 0 /\ Records[hi].sequence = 1)
     => /\ NumEvents(c) = 1
        /\ Returned(c)[1] = RawEvent(Records[hi])

----------------------------------------------------------------------------
(* C4.  Cancellation suppression: a VEVENT block whose STATUS is CANCELLED *)
(* contributes nothing to the output and takes no part in override         *)
(* matching, be it a standalone record, an override or a master with an    *)
(* RRULE: the call returns exactly what it returns for the same calendar   *)
(* without the cancelled blocks.                                           *)
CancellationSuppression ==
  \A c \in Callers :
     Resolved(c) =>
       /\ ~Alone(c, Strip(calendar, "cancelled")).threw
       /\ Returned(c) = Alone(c, Strip(calendar, "cancelled")).events

\* a call returned the occurrences of a live master whose calendar also holds
\* a cancelled override of that series
CancelledOverrideBesideMaster ==
  \E c \in Callers :
     /\ Resolved(c) /\ NumEvents(c) > 1
     /\ \E m, o \in 1..Len(Records) :
           /\ IsMaster(Records[m])
           /\ Records[o].status = "CANCELLED"
           /\ IsInstant(Records[o].recurrenceId)
           /\ Records[o].title = Records[m].title
           /\ \E k \in 1..Len(Expansion(Records[m], c)) :
                 dateKey(Records[m].title, Records[m].allDay,
                         Expansion(Records[m], c)[k].start)
                   = dateKey(Records[o].title, Records[o].allDay,
                             Records[o].recurrenceId)

----------------------------------------------------------------------------
(* C9.  A VEVENT block lacking DTSTART or lacking SUMMARY does not make    *)
(* the parse throw and yields no record, and the well-formed blocks of the *)
(* same calendar object, before and after it, yield their records as if    *)
(* the defective block were absent.                                        *)
DefectiveBlockSkipped ==
  \A c \in Callers :
     Resolved(c) =>
       /\ \A k \in 1..Len(calendar) :
             parseICalData(calendar[k].lines, calls[c].startDate,
                           calls[c].endDate, calls[c].rnd, 0).events
               = parseICalData(Strip(calendar, "defective")[k].lines,
                               calls[c].startDate, calls[c].endDate,
                               calls[c].rnd, 0).events
       /\ Returned(c) = Alone(c, Strip(calendar, "defective")).events

\* a call returned the records of two well-formed blocks that stand before
\* and after a defective block in one calendar object
DefectiveBetweenWellFormed ==
  \E c \in Callers : \E k \in 1..Len(calendar) :
     LET blocks == BlocksOfLines(calendar[k].lines, 1)
     IN /\ Resolved(c) /\ NumEvents(c) = 2
        /\ Len(blocks) = 3
        /\ IsDefectiveBlock(blocks[2])
        /\ WellFormed(Properties(blocks[1]))
        /\ WellFormed(Properties(blocks[3]))

----------------------------------------------------------------------------
(* C10.  Idempotence: two calls that resolve the same calendar objects     *)
(* with the same window return identical lists, the same ids in the same   *)
(* order.  As stated, for every input batch:                               *)
Idempotence ==
  \A c, d \in Callers :
     (/\ Resolved(c) /\ Resolved(d)
      /\ calls[c].startDate = calls[d].startDate
      /\ calls[c].endDate = calls[d].endDate)
     => Returned(c) = Returned(d)

\* every VEVENT block of the calendar carries a UID line
EveryBlockHasUID ==
  \A k \in 1..Len(BlocksOf(calendar, 1)) :
     HasProperty(BlocksOf(calendar, 1)[k], "UID")

(* C10, for the batches in which every VEVENT block carries a UID: two     *)
(* calls with the same window return identical lists, ids and order.       *)
IdempotenceWithUIDs ==
  EveryBlockHasUID => Idempotence

\* two calls with the same window each returned several occurrences of a
\* calendar whose blocks all carry a UID
ResolvedTwiceWithUIDs ==
  /\ EveryBlockHasUID
  /\ \A c \in Callers : Resolved(c) /\ NumEvents(c) > 1
  /\ calls[1].startDate = calls[2].startDate
  /\ calls[1].endDate = calls[2].endDate

----------------------------------------------------------------------------
(* C11.  Every occurrence expanded from a recurring master has the id      *)
(* <master UID>_<epoch of the occurrence's own start>, for all-day and for *)
(* timed masters and for every frequency.                                  *)

\* the instants an occurrence of the model can lie on
Instants == (0 - 2 * DayLen)..((MaxDay + 2) * DayLen)

\* the ids of the form <uid>_<epoch>
ExpandedIds(uid) == {uid \o "_" \o ToString(t) : t \in Instants}

ExpandedIdIsUidEpoch ==
  \A c \in Callers :
     Resolved(c) =>
       \A i \in 1..NumEvents(c) : \A m \in 1..Len(Records) :
          (/\ IsMaster(Records[m]) /\ Records[m].id # ""
           /\ Returned(c)[i].id \in ExpandedIds(Records[m].id))
          => Returned(c)[i].id
               = Records[m].id \o "_" \o ToString(Returned(c)[i].start)

----------------------------------------------------------------------------
(* C13.  A recurring master with no occurrence inside the window           *)
(* contributes nothing to the output, and neither does a record that lies  *)
(* entirely outside the window: a calendar made of such records only       *)
(* resolves to the empty list.                                             *)

\* record r has nothing inside the window of call c
OutsideWindow(r, c) ==
  \/ IsMaster(r) /\ Len(Expansion(r, c)) = 0
  \/ /\ IsStandalone(r) \/ IsOverride(r)
     /\ ~InWindow(RawEvent(r), calls[c].startDate, calls[c].endDate)

NothingFromOutsideWindow ==
  \A c \in Callers :
     (Resolved(c) /\ \A k \in 1..Len(Records) : OutsideWindow(Records[k], c))
     => NumEvents(c) = 0

----------------------------------------------------------------------------
(* C14.  A call whose window start is later than its window end fails      *)
(* explicitly: fetchEvents never resolves such a call to a list.           *)
InvertedWindowFails ==
  \A c \in Callers :
     (IsInstant(calls[c].startDate) /\ IsInstant(calls[c].endDate)
        /\ calls[c].startDate > calls[c].endDate)
     => ~Resolved(c)

----------------------------------------------------------------------------
(* C15.  fetchEvents rejects with 'CalDAV credentials not configured'      *)
(* exactly when isConfigured() is false, that is when the server URL, the  *)
(* username or the password is empty; such a call issues no proxy request  *)
(* and leaves requestedStartDate and requestedEndDate as they were.        *)
CredentialsGate ==
  \A c \in Callers :
     /\ calls[c].error = "CalDAV credentials not configured"
          <=> (calls[c].pc # "idle" /\ ~isConfigured)
     /\ ~isConfigured =>
          /\ calls[c].pc \in {"idle", "rejected"}
          /\ requestedStartDate = NoDate /\ requestedEndDate = NoDate

\* a call was rejected for want of a username alone
RejectedWithoutUsername ==
  \E c \in Callers :
     /\ serverUrl # "" /\ username = "" /\ password # ""
     /\ calls[c].pc = "rejected"
     /\ IsInstant(calls[c].startDate)

----------------------------------------------------------------------------
(* C16.  Deduplication keeps only the highest sequence of a group: no      *)
(* occurrence in the output of deduplicateEvents has a lower sequence than *)
(* a parsed record of its own (title, day) group, in whatever order the    *)
(* records arrive.  The group of a record is taken as the code takes it,   *)
(* title and day key.                                                      *)

\* the records deduplicateEvents receives in call c
Parsed(c) ==
  ParsedEvents(calendar, calls[c].startDate, calls[c].endDate, calls[c].rnd).events

SameGroup(a, b) ==
  /\ IsInstant(a.start) /\ IsInstant(b.start)
  /\ dateKey(a.title, a.allDay, a.start) = dateKey(b.title, b.allDay, b.start)

HighestSequenceKept ==
  \A c \in Callers :
     Resolved(c) =>
       \A i \in 1..NumEvents(c) : \A j \in 1..Len(Parsed(c)) :
          SameGroup(Returned(c)[i], Parsed(c)[j])
          => SeqOrZero(Returned(c)[i]) >= SeqOrZero(Parsed(c)[j])

----------------------------------------------------------------------------
(* C17.  Every override record (RECURRENCE-ID, title and start, not        *)
(* cancelled) whose start lies in the window is in the resolved output,    *)
(* whatever other records the batch holds: the output has an occurrence    *)
(* with the override's title and start.                                    *)
OverridesAlwaysIncluded ==
  \A c \in Callers :
     Resolved(c) =>
       \A k \in 1..Len(Records) :
          (/\ IsOverride(Records[k])
           /\ Records[k].start >= calls[c].startDate
           /\ Records[k].start <= calls[c].endDate)
          => \E i \in 1..NumEvents(c) :
                /\ Returned(c)[i].title = Records[k].title
                /\ Returned(c)[i].start = Records[k].start

----------------------------------------------------------------------------
(* C20.  EXDATE exclusion: no occurrence emitted for a recurring master    *)
(* starts on one of the master's EXDATE values (the same calendar day for  *)
(* an all-day master, the same instant otherwise), also when every         *)
(* in-window occurrence of the master is excluded.                         *)

\* occurrence e was emitted for master record m
EmittedFor(e, m) ==
  /\ m.id # "" /\ e.title = m.title /\ e.recurrenceId = NoDate
  /\ e.id = m.id \/ e.id \in ExpandedIds(m.id)

OnExdate(e, m) ==
  \E k \in 1..Len(m.exdates) :
     /\ IsInstant(e.start) /\ IsInstant(m.exdates[k])
     /\ IF m.allDay THEN LocalDay(e.start) = LocalDay(m.exdates[k])
                    ELSE e.start = m.exdates[k]

NoOccurrenceOnExdate ==
  \A c \in Callers :
     Resolved(c) =>
       \A i \in 1..NumEvents(c) : \A m \in 1..Len(Records) :
          (IsMaster(Records[m]) /\ EmittedFor(Returned(c)[i], Records[m]))
          => ~OnExdate(Returned(c)[i], Records[m])

----------------------------------------------------------------------------
(* C12.  The Standup scenario: a master that starts on Monday, with        *)
(* FREQ=WEEKLY;INTERVAL=1;BYDAY=MO,WE,FR, expanded over the week that      *)
(* starts on that Monday yields exactly three occurrences, Monday,         *)
(* Wednesday and Friday at the master's time of day, none all-day, in      *)
(* ascending order.                                                        *)
StandupWeek ==
  (/\ expansion.pc = "returned"
   /\ expansion.event.title = "Standup"
   /\ requestedStartDate = LocalMidnight(1)
   /\ requestedEndDate = LocalMidnight(8))
  => /\ Len(expansion.result) = 3
     /\ \A k \in 1..3 :
           /\ expansion.result[k].start = LocalTime(2 * k - 1, 1)
           /\ ~expansion.result[k].allDay

----------------------------------------------------------------------------
(* C18.  Expansion is complete inside the window: for a timed DAILY or     *)
(* WEEKLY master without BYDAY, anchored at s with INTERVAL n >= 1, the    *)
(* starts of the occurrences the expansion emits are exactly the instants  *)
(* s + k*n days (resp. weeks), k >= 0, inside the window, however long     *)
(* before the window the anchor lies.                                      *)

\* the period of a DAILY or WEEKLY rule
PeriodOf(rrule) ==
  intervalOf(rrule) * DayLen * (IF includesFreq(rrule, "WEEKLY") THEN 7 ELSE 1)

\* the instants s + k * period inside the window
ImpliedStarts(event) ==
  {t \in requestedStartDate..requestedEndDate :
     t >= event.start /\ (t - event.start) % PeriodOf(event.rrule) = 0}

ExpansionComplete ==
  LET event == expansion.event
  IN (/\ expansion.pc = "returned"
      /\ ~event.allDay
      /\ includesFreq(event.rrule, "DAILY") \/ includesFreq(event.rrule, "WEEKLY")
      /\ ~includesFreq(event.rrule, "YEARLY")
      /\ ~includesFreq(event.rrule, "MONTHLY")
      /\ Len(bydayOf(event.rrule)) = 0
      /\ intervalOf(event.rrule) >= 1)
     => {expansion.expanded[k].start : k \in 1..Len(expansion.expanded)}
          = ImpliedStarts(event)

----------------------------------------------------------------------------
(* C19.  The expansion of a master terminates for every rule and every     *)
(* window, INTERVAL=0 and a far window end included: the MONTHLY and the   *)
(* WEEKLY loop make at most 100 passes, the DAILY loop at most 365, and    *)
(* the expansion then returns what it has collected.                       *)
ExpansionTerminates ==
  /\ [](/\ expansion.iterations <= 365
        /\ expansion.pc \in {"monthly", "weekly"} => expansion.iterations <= 100
        /\ expansion.pc = "returned" => Len(expansion.result) > 0)
  /\ <>(expansion.pc = "returned")

\* the DAILY loop of a master with INTERVAL=0 was cut off after 365 passes
\* and the expansion returned the 365 occurrences collected
TruncatedAtBound ==
  /\ expansion.pc = "returned"
  /\ includesFreq(expansion.event.rrule, "DAILY")
  /\ intervalOf(expansion.event.rrule) = 0
  /\ expansion.iterations = 365
  /\ expansion.result = expansion.expanded
  /\ Len(expansion.result) = 365

----------------------------------------------------------------------------
(* C21: every occurrence returned for a WEEKLY master with a BYDAY list    *)
(* falls on a weekday of that list, and a WEEKLY master without BYDAY      *)
(* keeps every date the loop steps through inside the window.              *)

\* the WEEKLY branch is the one taken for this rule
TakesWeekly(rrule) ==
  /\ includesFreq(rrule, "WEEKLY")
  /\ ~includesFreq(rrule, "YEARLY")
  /\ ~includesFreq(rrule, "MONTHLY")

\* the dates the WEEKLY loop steps through
SteppedDates(event) ==
  {event.start + k * intervalOf(event.rrule) * 7 * DayLen :
     k \in 0..(maxIterations("weekly") - 1)}

BydayFilter ==
  (expansion.pc = "returned" /\ TakesWeekly(expansion.event.rrule)) =>
    LET event == expansion.event
        byday == bydayOf(event.rrule)
        result == expansion.result
    IN IF Len(byday) > 0
       THEN \A i \in 1..Len(result) : getDay(result[i].start) \in SeqRange(byday)
       ELSE \A d \in SteppedDates(event) :
              (d >= requestedStartDate /\ d <= requestedEndDate) =>
                \E i \in 1..Len(result) :
                   result[i].id = event.id \o "_" \o ToString(d)

----------------------------------------------------------------------------
(* C22: every occurrence returned for a MONTHLY master has the day of the  *)
(* month of the master's start: a month without that day yields nothing,   *)
(* and the months after it are generated on the anchor day again.          *)

\* the MONTHLY branch is the one taken for this rule
TakesMonthly(rrule) ==
  includesFreq(rrule, "MONTHLY") /\ ~includesFreq(rrule, "YEARLY")

MonthlyKeepsAnchorDay ==
  (expansion.pc = "returned" /\ TakesMonthly(expansion.event.rrule)) =>
    \A i \in 1..Len(expansion.result) :
       getDate(expansion.result[i].start) = getDate(expansion.event.start)

----------------------------------------------------------------------------
(* C23: a master whose RRULE has an unrecognized frequency does not make   *)
(* the expansion throw; it yields one occurrence at the master's own start *)
(* when that start lies in the window, and none when it does not.          *)

\* no branch of the expansion recognizes the frequency of this rule
UnknownFreq(rrule) ==
  \A f \in {"YEARLY", "MONTHLY", "WEEKLY", "DAILY"} : ~includesFreq(rrule, f)

UnknownFreqFallback ==
  (expansion.pc = "returned" /\ UnknownFreq(expansion.event.rrule)) =>
    LET start == expansion.event.start
        result == expansion.result
    IN IF start >= requestedStartDate /\ start <= requestedEndDate
       THEN Len(result) = 1 /\ result[1].start = start
       ELSE Len(result) = 0

----------------------------------------------------------------------------
(* C24: an override is terminal.  A block with RECURRENCE-ID that yields   *)
(* a record yields exactly one, with the block's own start and end, also   *)
(* when the block carries an RRULE; and the records that carry a           *)
(* recurrenceId after the parse are exactly those, one per such block, so  *)
(* nothing the expansion produced carries a recurrenceId.                  *)

\* the block passes the tests of the END:VEVENT branch
Yields(r) == r.status # "CANCELLED" /\ r.title # "" /\ r.start # NoDate

SameButId(a, b) == [a EXCEPT !.id = ""] = [b EXCEPT !.id = ""]

OverridesTerminal ==
  \A c \in Callers :
     (Resolved(c) \/ Threw(c)) =>
       LET blocks == BlocksOf(calendar, 1)
           overrides == {k \in 1..Len(blocks) :
                           Yields(Records[k]) /\ Records[k].recurrenceId # NoDate}
           carrying == {i \in 1..Len(Parsed(c)) :
                          Parsed(c)[i].recurrenceId # NoDate}
       IN /\ \A k \in overrides :
                LET got == parseICalData(blocks[k], calls[c].startDate,
                                         calls[c].endDate, calls[c].rnd, 0).events
                IN Len(got) = 1 /\ SameButId(got[1], RawEvent(Records[k]))
          /\ Cardinality(carrying) = Cardinality(overrides)

\* a call returned for a calendar that holds a master and an override block
\* which carries an RRULE whose occurrences lie in the window
OverrideWithRruleParsed ==
  \E c \in Callers : \E m, o \in 1..Len(Records) :
     /\ Resolved(c)
     /\ IsMaster(Records[m])
     /\ Yields(Records[o]) /\ IsInstant(Records[o].recurrenceId)
     /\ rruleParses(Records[o].rrule)
     /\ Len(between(Records[o].rrule, Records[o].start, <<>>,
                    calls[c].startDate, calls[c].endDate)) > 0
     /\ \E i \in 1..NumEvents(c) :
           Returned(c)[i].recurrenceId = Records[o].recurrenceId

----------------------------------------------------------------------------
(* C25: the allDay flag of a parsed record is true exactly when the value  *)
(* of its DTSTART line is a date without a time of day, and false for      *)
(* every date-time value, whatever parameters the line carries.            *)

\* the value of the DTSTART line of a block
DtstartValue(block) ==
  block[CHOOSE i \in 1..Len(block) : block[i].name = "DTSTART"].v

AllDayIffDateOnly ==
  \A c \in Callers :
     (Resolved(c) \/ Threw(c)) =>
       LET blocks == BlocksOf(calendar, 1)
       IN \A k \in 1..Len(blocks) :
             (HasProperty(blocks[k], "DTSTART") /\ Yields(Records[k])) =>
               LET got == parseICalData(blocks[k], calls[c].startDate,
                                        calls[c].endDate, calls[c].rnd, 0).events
               IN \A i \in 1..Len(got) :
                     got[i].allDay = (DtstartValue(blocks[k]).kind = "date")

----------------------------------------------------------------------------
(* C26: block boundaries.  The records parsed from a text are exactly the  *)
(* records of its BEGIN:VEVENT ... END:VEVENT blocks, each block parsed on *)
(* its own: lines outside a block change nothing, no field carries over    *)
(* from an earlier block, and an END:VEVENT without an open block emits    *)
(* nothing.                                                                *)

RECURSIVE BlockByBlock(_, _, _, _)
\* the blocks parsed one by one, each from an empty currentEvent
BlockByBlock(blocks, k, c, acc) ==
  IF k > Len(blocks) THEN acc
  ELSE LET got == parseICalData(blocks[k], calls[c].startDate,
                                calls[c].endDate, calls[c].rnd, acc.used)
       IN BlockByBlock(blocks, k + 1, c,
                       ObjectsState(acc.events \o got.events, got.used))

BlockBoundaries ==
  \A c \in Callers :
     (Resolved(c) \/ Threw(c)) =>
       Parsed(c) = BlockByBlock(BlocksOf(calendar, 1), 1, c,
                                ObjectsState(<<>>, 0)).events

\* a call returned records for a text in which lines outside any block stand
\* between a block with every property and a later block
StrayLinesBetweenBlocks ==
  \E c \in Callers :
     LET lines == calendar[1].lines
     IN /\ Resolved(c) /\ NumEvents(c) >= 2
        /\ Len(calendar) = 1
        /\ Len(BlocksOf(calendar, 1)) = 2
        /\ Records[1].rrule # "" /\ Records[2].rrule = ""
        /\ \E i \in 1..Len(lines) :
              /\ lines[i].name = "RRULE"
              /\ \E b \in 1..(i - 1) : lines[b] = EndLine
              /\ \E b \in (i + 1)..Len(lines) : lines[b] = BeginLine
              /\ \A b \in 1..(i - 1) :
                    lines[b] = BeginLine => \E e \in (b + 1)..(i - 1) : lines[e] = EndLine


----------------------------------------------------------------------------
(* C27: when the parse of one calendar object throws (its data is not a    *)
(* string), the records of the other objects of the batch, earlier and     *)
(* later ones, are still returned: the call returns what it returns for    *)
(* the batch without that object.                                          *)

\* the objects of the batch whose data is a text
TextObjects(objs) == SelectSeq(objs, LAMBDA obj : obj.isText)

PerObjectIsolation ==
  \A c \in Callers :
     /\ Resolved(c) =>
          /\ ~Alone(c, TextObjects(calendar)).threw
          /\ Returned(c) = Alone(c, TextObjects(calendar)).events
     /\ Threw(c) => Alone(c, TextObjects(calendar)).threw

\* a call returned the records of the first and the third object of a batch
\* whose second object has no text
ThrowingObjectBetween ==
  \E c \in Callers :
     /\ Resolved(c)
     /\ Len(calendar) = 3
     /\ calendar[1].isText /\ ~calendar[2].isText /\ calendar[3].isText
     /\ calendar[1] # calendar[3]
     /\ \E i, j \in 1..NumEvents(c) :
           /\ Returned(c)[i].title = Properties(calendar[1].lines).title
           /\ Returned(c)[j].title = Properties(calendar[3].lines).title


----------------------------------------------------------------------------
(* C28: an override with title T and RECURRENCE-ID on day D removes the    *)
(* expanded occurrence of day D of every master whose title is T, whatever *)
(* the masters' UIDs: no occurrence expanded from such a master is         *)
(* returned on day D.                                                      *)

\* e is the returned form of an occurrence expanded from master m
ExpandedFrom(e, m, c) ==
  \E k \in 1..Len(Expansion(m, c)) : e = Expansion(m, c)[k]

TitleAndDayCorrelation ==
  \A c \in Callers :
     Resolved(c) =>
       \A o, m \in 1..Len(Records) :
          (/\ IsOverride(Records[o]) /\ IsMaster(Records[m])
           /\ Records[o].title = Records[m].title)
          => \A i \in 1..NumEvents(c) :
                ExpandedFrom(Returned(c)[i], Records[m], c) =>
                   LocalDay(Returned(c)[i].start)
                     # LocalDay(Records[o].recurrenceId)


----------------------------------------------------------------------------
(* C29: a standalone record (no RRULE, no RECURRENCE-ID) is never removed  *)
(* as 'replaced by exception' on account of another record's               *)
(* RECURRENCE-ID, with or without a SEQUENCE line and whatever its value:  *)
(* the filter of deduplicateEvents keeps every standalone record.          *)

\* the records that pass events.filter(...) in call c
Filtered(c) == SelectEvents(Parsed(c), modifiedOccurrences(Parsed(c)))

StandaloneNeverReplaced ==
  \A c \in Callers :
     Resolved(c) =>
       \A k \in 1..Len(Records) :
          IsStandalone(Records[k]) =>
             \E i \in 1..Len(Filtered(c)) :
                Filtered(c)[i] = RawEvent(Records[k])


----------------------------------------------------------------------------
(* C30: in the UI, isLoadingEvents is true whenever at least one           *)
(* fetchCalDAVEvents call is in flight and false once all have settled,    *)
(* for any interleaving of overlapping calls.                              *)
LoadingTracksInFlight ==
  ui.isLoadingEvents <=> (ui.inFlight # {})

====
